---- MODULE Spec2Model ----
(***************************************************************************)
(* Model of scripts/enrich-tmdb-exports.js: the incremental reconciliation *)
(* of the TMDB daily id exports against the persisted enriched datasets.   *)
(*                                                                         *)
(* Units and encodings                                                     *)
(*   - a popularity coming from TMDB (export line, detail response) is an  *)
(*     integer number of thousandths; a stored popularity (field p) is an  *)
(*     integer number of hundredths, so Math.round(x * 100) / 100 is the   *)
(*     conversion Round2 from thousandths to hundredths;                   *)
(*   - a JS Map is a sequence of [k, v] pairs in insertion order;          *)
(*   - a date string is a sequence of characters, a digit being its value  *)
(*     and "-" being DASH;                                                 *)
(*   - ABSENT stands for undefined (a missing JSON field), NULL for null,  *)
(*     NAN for NaN;                                                        *)
(*   - the clock (Date.now()) counts ticks since the process started, with *)
(*     TicksPerSecond ticks to the second.                                 *)
(***************************************************************************)
EXTENDS Integers, Sequences, FiniteSets, TLC

\* ------------------------------------------------------------------ bounds
MaxId == 3
MaxRuns == 2
MaxLatency == 3

\* ------------------------------------------------------- program constants
BATCH_SIZE == 2
CHECKPOINT_INTERVAL == 2
REQUESTS_PER_SECOND == 2
TicksPerSecond == 2

\* ------------------------------------------------------------- encodings
ABSENT == -1
NULL == -2
NAN == -3
DASH == 10
NoFile == [exists |-> FALSE]
HttpError == [status |-> 503]

\* variant of Types that runs the series reconciliation first
TypesSeriesFirst == <<"tv", "movie">>

\* main: enrichType('movie'), then enrichType('tv')
Types == <<"movie", "tv">>
TypeSet == {"movie", "tv"}
Ids == 1..MaxId

\* truthiness of a number-valued field
Falsy(x) == x = ABSENT \/ x = NULL \/ x = NAN \/ x = 0

\* x || 0
OrZero(x) == IF Falsy(x) THEN 0 ELSE x

\* Math.round(x * 100) / 100, x in thousandths, result in hundredths
Round2(x) == (x + 5) \div 10

\* ------------------------------------------------------ Map (insertion order)
MapKeys(m) == {m[j].k : j \in 1..Len(m)}

MapHas(m, key) == \E j \in 1..Len(m) : m[j].k = key

MapGet(m, key) == m[CHOOSE j \in 1..Len(m) : m[j].k = key].v

MapSet(m, key, val) ==
    IF MapHas(m, key)
    THEN [j \in 1..Len(m) |-> IF m[j].k = key THEN [k |-> key, v |-> val] ELSE m[j]]
    ELSE Append(m, [k |-> key, v |-> val])

MapDelete(m, key) == SelectSeq(m, LAMBDA e : e.k # key)

MapValues(m) == [j \in 1..Len(m) |-> m[j].v]

\* variant of SortByPopDesc that reverses the order of records with equal p
RECURSIVE SortByPopDescUnstable(_)
SortByPopDescUnstable(s) ==
    IF s = <<>> THEN <<>>
    ELSE LET sorted == SortByPopDescUnstable(SubSeq(s, 1, Len(s) - 1))
             r == s[Len(s)]
         IN SelectSeq(sorted, LAMBDA x : x.p > r.p) \o <<r>>
              \o SelectSeq(sorted, LAMBDA x : x.p <= r.p)

\* Array.prototype.sort((a, b) => b.p - a.p): stable, descending by p
RECURSIVE SortByPopDesc(_)
SortByPopDesc(s) ==
    IF s = <<>> THEN <<>>
    ELSE LET sorted == SortByPopDesc(SubSeq(s, 1, Len(s) - 1))
             r == s[Len(s)]
         IN SelectSeq(sorted, LAMBDA x : x.p >= r.p) \o <<r>>
              \o SelectSeq(sorted, LAMBDA x : x.p < r.p)

\* ------------------------------------------------------------ load / save
FileOf(entries) == [exists |-> TRUE, count |-> Len(entries), entries |-> entries]

\* variant of MapFromEntries that keys a record by its position in the file
RECURSIVE MapFromEntriesByIndex(_, _)
MapFromEntriesByIndex(entries, m) ==
    IF entries = <<>> THEN m
    ELSE MapFromEntriesByIndex(Tail(entries), MapSet(m, Len(m) + 1, Head(entries)))

\* the loop of loadEnrichedData: map.set(entry.i, entry)
RECURSIVE MapFromEntries(_, _)
MapFromEntries(entries, m) ==
    IF entries = <<>> THEN m
    ELSE MapFromEntries(Tail(entries), MapSet(m, Head(entries).i, Head(entries)))

loadEnrichedData(file) ==
    IF ~file.exists THEN <<>> ELSE MapFromEntries(file.entries, <<>>)

\* the primary artifact written by saveEnrichedData
SavedFile(enrichedMap) == FileOf(SortByPopDesc(MapValues(enrichedMap)))

\* variant of SavedGz that compresses on every save
SavedGzAlways(oldGz, enrichedMap, isCheckpoint) == SavedFile(enrichedMap)

\* the compressed copy after saveEnrichedData: rewritten on a final save only
SavedGz(oldGz, enrichedMap, isCheckpoint) ==
    IF isCheckpoint THEN oldGz ELSE SavedFile(enrichedMap)

\* --------------------------------------------------------- export download
BlankLine == [kind |-> "blank"]
BadLine == [kind |-> "bad"]
EntryLine(id, adult, pop) ==
    [kind |-> "json", id |-> id, adult |-> adult, original_title |-> "ot",
     original_name |-> "on", popularity |-> pop]

\* the lines of a successfully downloaded export, parsed and filtered
RECURSIVE ParseLines(_, _)
ParseLines(type, lines) ==
    IF lines = <<>> THEN <<>>
    ELSE LET line == Head(lines)
             rest == ParseLines(type, Tail(lines))
         IN IF line.kind = "blank" THEN rest
            ELSE IF line.kind = "bad" THEN rest
            ELSE IF line.adult THEN rest
            ELSE <<[id |-> line.id,
                    title |-> IF type = "movie" THEN line.original_title
                                                ELSE line.original_name,
                    popularity |-> OrZero(line.popularity)]>> \o rest

ExportIds(entries) == {entries[j].id : j \in 1..Len(entries)}

\* new Set(...) iterated: the ids in first-occurrence order
RECURSIVE SetOrder(_, _)
SetOrder(entries, acc) ==
    IF entries = <<>> THEN acc
    ELSE SetOrder(Tail(entries),
                  IF \E j \in 1..Len(acc) : acc[j] = Head(entries).id
                  THEN acc ELSE Append(acc, Head(entries).id))

\* ---------------------------------------------------------- detail lookup
NoDate == [present |-> FALSE, chars |-> <<>>]
DateStr(chars) == [present |-> TRUE, chars |-> chars]

\* String.prototype.slice(0, 4)
Slice4(chars) == SubSeq(chars, 1, IF Len(chars) < 4 THEN Len(chars) ELSE 4)

\* parseInt on a string of digits and dashes
RECURSIVE LeadingDigits(_, _)
LeadingDigits(chars, acc) ==
    IF chars = <<>> \/ Head(chars) = DASH THEN acc
    ELSE LeadingDigits(Tail(chars), acc * 10 + Head(chars))

ParseInt(chars) ==
    IF chars = <<>> \/ Head(chars) = DASH THEN NAN ELSE LeadingDigits(chars, 0)

\* fetchTmdb: <<"throw">>, or <<"return", option>> with <<>> for null
fetchTmdb(response) ==
    IF response.kind = "network" THEN <<"throw">>
    ELSE IF response.status # 200
         THEN IF response.status = 404 THEN <<"return", <<>>>> ELSE <<"throw">>
         ELSE <<"return", <<response.body>>>>

\* the record one lookup resolves to (<<>> for null) and its errors++ count
RecordOf(type, details) ==
    LET date == IF type = "movie" THEN details.release_date
                                  ELSE details.first_air_date
        year == IF date.present THEN Slice4(date.chars) ELSE <<>>
    IN [i |-> details.id,
        t |-> IF type = "movie" THEN details.title ELSE details.name,
        y |-> IF year # <<>> THEN ParseInt(year) ELSE NULL,
        p |-> Round2(OrZero(details.popularity))]

\* variant of LookupResult that counts a not-found response as an error
LookupResultCountingNotFound(type, response) ==
    LET r == fetchTmdb(response)
    IN IF r[1] = "throw" THEN [result |-> <<>>, errors |-> 1]
       ELSE IF r[2] # <<>> THEN [result |-> <<RecordOf(type, r[2][1])>>, errors |-> 0]
       ELSE [result |-> <<>>, errors |-> 1]

LookupResult(type, response) ==
    LET r == fetchTmdb(response)
    IN IF r[1] = "throw" THEN [result |-> <<>>, errors |-> 1]
       ELSE IF r[2] # <<>> THEN [result |-> <<RecordOf(type, r[2][1])>>, errors |-> 0]
       ELSE [result |-> <<>>, errors |-> 0]

\* ------------------------------------------------------------ input sets
\* the popularity of the export line of an id, and of a record left on disk
ExportPop(id) == IF id = 1 THEN ABSENT ELSE 2236
StoredPop(id) == IF id = 1 THEN 300 ELSE IF id = 2 THEN 224 ELSE 124
DetailPops == {7777}

Ascending(S) == CHOOSE s \in [1..Cardinality(S) -> S] : \A a, b \in 1..Cardinality(S) : a < b => s[a] < s[b]
Reverse(s) == [j \in 1..Len(s) |-> s[Len(s) + 1 - j]]
\* the sequences that list the ids of a subset of S upwards, or all of S downwards
IdSeqs(S) == {Ascending(T) : T \in SUBSET S} \cup {Reverse(Ascending(S))}

\* what the export URL of a type serves: an error status, or lines with one
\* entry per id, optionally among a malformed, an adult and a blank line
PlainLines(S) == {[j \in 1..Len(s) |-> EntryLine(s[j], FALSE, ExportPop(s[j]))] : s \in IdSeqs(S)}

NoisyLines(S) ==
    {<<BadLine, EntryLine(1, TRUE, 1236)>> \o e \o <<BlankLine>> :
        e \in {x \in PlainLines(S) : Len(x) <= 1 /\ \A j \in 1..Len(x) : x[j].id # 1}}

Served(lines) == [status |-> 200, lines |-> lines]

RemoteChoices(S) ==
    {HttpError} \cup {Served(l) : l \in PlainLines(S) \cup NoisyLines(S)}

\* an export that lists the ids of S upwards
AllOf(S) == Served([j \in 1..Cardinality(S) |->
                        EntryLine(Ascending(S)[j], FALSE, ExportPop(Ascending(S)[j]))])

\* the release or first-air date of an item: none for the first, a date otherwise
DetailDate(id) == IF id = 1 THEN NoDate ELSE DateStr(<<2, 0, 0, 1, DASH, 0, 5>>)

DetailBody(id, date, pop) ==
    [id |-> id, title |-> "title", name |-> "name", release_date |-> date,
     first_air_date |-> date, popularity |-> pop]

\* what GET /<type>/<id> can answer: no answer, an error status, not found,
\* or the details of the requested id
Responses(id) ==
    {[kind |-> "network"], [kind |-> "http", status |-> 404],
     [kind |-> "http", status |-> 500]}
    \cup {[kind |-> "http", status |-> 200, body |-> DetailBody(id, DetailDate(id), pop)] :
            pop \in DetailPops}

\* a success response that carries the id of another item
OtherId(id) == (id % MaxId) + 1

MisdirectedResponses(id) ==
    {[kind |-> "http", status |-> 200, body |-> DetailBody(OtherId(id), DetailDate(OtherId(id)), pop)] :
        pop \in DetailPops}

\* the artifacts a previous run can have left: none, or a saved store
InitRecord(id) == [i |-> id, t |-> "old", y |-> NULL, p |-> StoredPop(id)]

InitMaps(S) == {[j \in 1..Len(s) |-> [k |-> s[j], v |-> InitRecord(s[j])]] : s \in IdSeqs(S)}

InitFiles(S) == {NoFile} \cup {SavedFile(m) : m \in InitMaps(S)}

\* ------------------------------------------------------------------ state
VARIABLES
    remote,         \* type -> what the export URL serves
    disk,           \* type -> tmdb-<type>s-enriched.json
    gz,             \* type -> tmdb-<type>s-enriched.json.gz
    run,            \* number of the process invocation
    pc,             \* position of the process
    typeIdx,        \* which enrichType call of main is running
    exportEntries, enrichedMap, newIds, staleCount,     \* enrichType locals
    i, promises, completed, errors, lastCheckpoint,     \* fetchDetailsForIds locals
    stats,          \* type -> value returned by enrichType
    exitCode,       \* process exit status, ABSENT while running
    loaded,         \* type -> the map returned by loadEnrichedData in this run
    lookups,        \* type -> id -> number of GET /<type>/<id> issued in this run
    outcome,        \* type -> id -> how the lookup of id settled in this run
    ended,          \* type -> how this run's enrichType ended
    found,          \* type -> the new ids this run's enrichType found
    now,            \* Date.now() - START_TIME
    batchStartTime, \* fetchDetailsForIds local
    issued,         \* the batches this run started: when, and how many lookups
    prev            \* lookups, outcome, ended, found, disk at the end of the previous run

procVars == <<pc, typeIdx, exportEntries, enrichedMap, newIds, staleCount,
              i, promises, completed, errors, lastCheckpoint, stats, exitCode>>
obsVars == <<loaded, lookups, outcome, ended, found, prev>>
clockVars == <<now, batchStartTime, issued>>
vars == <<remote, disk, gz, run, procVars, obsVars, clockVars>>

type == Types[typeIdx]
NoStats == [total |-> ABSENT, new |-> ABSENT, stale |-> ABSENT]
NoLookups == [t \in TypeSet |-> [id \in Ids |-> 0]]
NoOutcome == [t \in TypeSet |-> [id \in Ids |-> "none"]]
NotEnded == [t \in TypeSet |-> "no"]
NoNewIds == [t \in TypeSet |-> <<>>]
NoLoaded == [t \in TypeSet |-> <<>>]

\* the state of a freshly started process
ProcessStart ==
    /\ pc = "download"
    /\ typeIdx = 1
    /\ exportEntries = <<>>
    /\ enrichedMap = <<>>
    /\ newIds = <<>>
    /\ staleCount = 0
    /\ i = 0
    /\ promises = <<>>
    /\ completed = 0
    /\ errors = 0
    /\ lastCheckpoint = 0
    /\ stats = [t \in TypeSet |-> NoStats]
    /\ exitCode = ABSENT
    /\ loaded = NoLoaded
    /\ lookups = NoLookups
    /\ outcome = NoOutcome
    /\ ended = NotEnded
    /\ found = NoNewIds
    /\ now = 0
    /\ batchStartTime = 0
    /\ issued = <<>>

\* a first process over the artifacts and exports drawn from the given sets
InitWith(movieRemotes, movieFiles, tvRemotes, tvFiles) ==
    /\ \E rm \in movieRemotes, rt \in tvRemotes :
          remote = [t \in TypeSet |-> IF t = "movie" THEN rm ELSE rt]
    /\ \E fm \in movieFiles, ft \in tvFiles :
          disk = [t \in TypeSet |-> IF t = "movie" THEN fm ELSE ft]
    /\ gz = disk
    /\ run = 1
    /\ ProcessStart
    /\ prev = [lookups |-> NoLookups, outcome |-> NoOutcome, ended |-> NotEnded,
               found |-> NoNewIds, disk |-> disk]

\* the movie reconciliation over every export and store of the bounds, the
\* series reconciliation over an export without entries and no artifact
Init ==
    InitWith(RemoteChoices(Ids), InitFiles(Ids),
             {Served(<<BadLine, EntryLine(1, TRUE, 1236), BlankLine>>)}, {NoFile})

\* --------------------------------------------------------------- actions
\* (batch.length / REQUESTS_PER_SECOND) * 1000, in ticks
MinTime(n) == (n * TicksPerSecond) \div REQUESTS_PER_SECOND

\* variant of AfterRateLimit that never sleeps
AfterRateLimitNoSleep(t, start, n) == t

\* the clock once the rate limiting of a batch of n lookups is over, read at
\* t when the lookups have resolved: the sleep lasts what it was asked for
AfterRateLimit(t, start, n) ==
    LET elapsed == t - start
        minTime == MinTime(n)
    IN IF elapsed < minTime THEN t + (minTime - elapsed) ELSE t

Pending == [state |-> "pending", result |-> <<>>]
Settled(result) == [state |-> "settled", result |-> result]

\* variant of Batch that takes one id more than the batch size
BatchWide(ids, from) ==
    SubSeq(ids, from + 1,
           IF from + BATCH_SIZE + 1 < Len(ids) THEN from + BATCH_SIZE + 1 ELSE Len(ids))

\* variant of Batch that starts one id early after the first batch
BatchOverlapping(ids, from) ==
    SubSeq(ids, IF from > 0 THEN from ELSE 1,
           IF from + BATCH_SIZE < Len(ids) THEN from + BATCH_SIZE ELSE Len(ids))

\* ids.slice(i, i + BATCH_SIZE)
Batch(ids, from) ==
    SubSeq(ids, from + 1, IF from + BATCH_SIZE < Len(ids) THEN from + BATCH_SIZE ELSE Len(ids))

\* variant of NewIds that takes every export id as new
NewIdsAll(entries, m) == SetOrder(entries, <<>>)

\* step 3 of enrichType: the export ids that the loaded map does not have
NewIds(entries, m) == SelectSeq(SetOrder(entries, <<>>), LAMBDA id : ~MapHas(m, id))

\* variant of PruneStale that counts the stale keys without deleting them
RECURSIVE PruneStaleKeep(_, _, _)
PruneStaleKeep(keys, m, exportIds) ==
    IF keys = <<>> THEN [map |-> m, staleCount |-> 0]
    ELSE IF Head(keys) \notin exportIds
         THEN LET r == PruneStaleKeep(Tail(keys), m, exportIds)
              IN [map |-> r.map, staleCount |-> r.staleCount + 1]
         ELSE PruneStaleKeep(Tail(keys), m, exportIds)

\* variant of PruneStale that passes over the key that follows a deleted key
RECURSIVE PruneStaleSkip(_, _, _)
PruneStaleSkip(keys, m, exportIds) ==
    IF keys = <<>> THEN [map |-> m, staleCount |-> 0]
    ELSE IF Head(keys) \notin exportIds
         THEN LET rest == IF Len(keys) > 1 THEN Tail(Tail(keys)) ELSE <<>>
                  r == PruneStaleSkip(rest, MapDelete(m, Head(keys)), exportIds)
              IN [map |-> r.map, staleCount |-> r.staleCount + 1]
         ELSE PruneStaleSkip(Tail(keys), m, exportIds)

\* step 4 of enrichType: delete every key that is not an export id, counting
RECURSIVE PruneStale(_, _, _)
PruneStale(keys, m, exportIds) ==
    IF keys = <<>> THEN [map |-> m, staleCount |-> 0]
    ELSE IF Head(keys) \notin exportIds
         THEN LET r == PruneStale(Tail(keys), MapDelete(m, Head(keys)), exportIds)
              IN [map |-> r.map, staleCount |-> r.staleCount + 1]
         ELSE PruneStale(Tail(keys), m, exportIds)

\* variant of AddResults that stops at the first lookup without a record
RECURSIVE AddResultsUntilNull(_, _)
AddResultsUntilNull(results, m) ==
    IF results = <<>> \/ Head(results).result = <<>> THEN m
    ELSE AddResultsUntilNull(Tail(results),
                             MapSet(m, Head(results).result[1].i, Head(results).result[1]))

\* the loop over batchResults: enrichedMap.set(result.i, result)
RECURSIVE AddResults(_, _)
AddResults(results, m) ==
    IF results = <<>> THEN m
    ELSE AddResults(Tail(results),
                    IF Head(results).result # <<>>
                    THEN MapSet(m, Head(results).result[1].i, Head(results).result[1])
                    ELSE m)

\* variant of UpdatePopularity that truncates instead of rounding
RECURSIVE UpdatePopularityTruncated(_, _)
UpdatePopularityTruncated(entries, m) ==
    IF entries = <<>> THEN m
    ELSE UpdatePopularityTruncated(Tail(entries),
            IF MapHas(m, Head(entries).id)
            THEN MapSet(m, Head(entries).id,
                        [MapGet(m, Head(entries).id) EXCEPT
                            !.p = OrZero(Head(entries).popularity) \div 10])
            ELSE m)

\* step 6 of enrichType: existing.p = round(entry.popularity || 0)
RECURSIVE UpdatePopularity(_, _)
UpdatePopularity(entries, m) ==
    IF entries = <<>> THEN m
    ELSE UpdatePopularity(Tail(entries),
            IF MapHas(m, Head(entries).id)
            THEN MapSet(m, Head(entries).id,
                        [MapGet(m, Head(entries).id) EXCEPT
                            !.p = Round2(OrZero(Head(entries).popularity))])
            ELSE m)

\* variant of ArtifactAfterBatch that saves at the end of every batch
ArtifactAfterBatchAlways(file, m, due, overBudget) == SavedFile(m)

\* variant of ArtifactAfterBatch without the save of the time-budget exit
ArtifactAfterBatchNoExitSave(file, m, due, overBudget) ==
    IF due THEN SavedFile(m) ELSE file

\* the primary artifact after the checkpoint (when due) and the time-budget
\* save (when over budget) at the end of a batch
ArtifactAfterBatch(file, m, due, overBudget) ==
    IF due \/ overBudget THEN SavedFile(m) ELSE file

OutcomeTag(id, response) ==
    IF fetchTmdb(response)[1] = "throw" THEN "err"
    ELSE IF fetchTmdb(response)[2] = <<>> THEN "nf"
    ELSE IF response.body.id = id THEN "ok" ELSE "okOther"

\* variant of downloadExport that takes a failed download as an empty export
downloadExportLenient ==
    /\ pc = "download"
    /\ pc' = "reconcile"
    /\ exportEntries' = IF remote[type].status # 200 THEN <<>>
                        ELSE ParseLines(type, remote[type].lines)
    /\ UNCHANGED <<remote, disk, gz, run, typeIdx, enrichedMap, newIds, staleCount,
                   i, promises, completed, errors, lastCheckpoint, stats, exitCode,
                   loaded, lookups, outcome, ended, found, prev, clockVars>>

\* enrichType step 1: downloadExport returns the parsed entries or throws,
\* and main's catch turns the throw into exit status 1
downloadExport ==
    /\ pc = "download"
    /\ IF remote[type].status # 200
       THEN /\ pc' = "exited"
            /\ exitCode' = 1
            /\ ended' = [ended EXCEPT ![type] = "fatal"]
            /\ UNCHANGED exportEntries
       ELSE /\ pc' = "reconcile"
            /\ exportEntries' = ParseLines(type, remote[type].lines)
            /\ UNCHANGED <<exitCode, ended>>
    /\ UNCHANGED <<remote, disk, gz, run, typeIdx, enrichedMap, newIds, staleCount,
                   i, promises, completed, errors, lastCheckpoint, stats,
                   loaded, lookups, outcome, found, prev, clockVars>>

\* enrichType steps 2 to 4: load, find the new ids, delete the stale ids
reconcile ==
    /\ pc = "reconcile"
    /\ LET m == loadEnrichedData(disk[type])
           pruned == PruneStale([j \in 1..Len(m) |-> m[j].k], m, ExportIds(exportEntries))
       IN /\ newIds' = NewIds(exportEntries, m)
          /\ enrichedMap' = pruned.map
          /\ staleCount' = pruned.staleCount
          /\ loaded' = [loaded EXCEPT ![type] = m]
          /\ found' = [found EXCEPT ![type] = NewIds(exportEntries, m)]
          /\ pc' = IF newIds' # <<>> THEN "fetch" ELSE "finish"
    /\ UNCHANGED <<remote, disk, gz, run, typeIdx, exportEntries,
                   i, promises, completed, errors, lastCheckpoint, stats, exitCode,
                   lookups, outcome, ended, prev, clockVars>>

\* fetchDetailsForIds, head of a loop iteration: every lookup of the batch is issued
startBatch ==
    /\ pc = "fetch"
    /\ i < Len(newIds)
    /\ LET batch == Batch(newIds, i)
       IN /\ promises' = [j \in 1..Len(batch) |-> Pending]
          /\ lookups' = [lookups EXCEPT ![type] =
                [id \in Ids |-> @[id] + Cardinality({j \in 1..Len(batch) : batch[j] = id})]]
          /\ batchStartTime' = now
          /\ issued' = Append(issued, [at |-> now, n |-> Len(batch)])
    /\ pc' = "await"
    /\ UNCHANGED <<remote, disk, gz, run, typeIdx, exportEntries, enrichedMap, newIds,
                   staleCount, i, completed, errors, lastCheckpoint, stats, exitCode,
                   loaded, outcome, ended, found, prev, now>>

\* one lookup of the batch in flight settles with a response of the detail API
settle(j, response) ==
    /\ pc = "await"
    /\ promises[j].state = "pending"
    /\ LET r == LookupResult(type, response)
       IN /\ promises' = [promises EXCEPT ![j] = Settled(r.result)]
          /\ errors' = errors + r.errors
    /\ outcome' = [outcome EXCEPT ![type][Batch(newIds, i)[j]] =
                        OutcomeTag(Batch(newIds, i)[j], response)]
    /\ UNCHANGED <<remote, disk, gz, run, pc, typeIdx, exportEntries, enrichedMap, newIds,
                   staleCount, i, completed, lastCheckpoint, stats, exitCode,
                   loaded, lookups, ended, found, prev, clockVars>>

\* fetchDetailsForIds, rest of the iteration once Promise.all has resolved:
\* store the results, sleep for the rate limit, checkpoint when due, then the
\* time-budget check, whose outcome is the input overBudget
batchDone(overBudget) ==
    /\ pc = "await"
    /\ \A j \in 1..Len(promises) : promises[j].state = "settled"
    /\ LET m == AddResults(promises, enrichedMap)
           done == completed + Len(promises)
           due == done - lastCheckpoint >= CHECKPOINT_INTERVAL
       IN /\ enrichedMap' = m
          /\ completed' = done
          /\ lastCheckpoint' = IF due THEN done ELSE lastCheckpoint
          /\ disk' = [disk EXCEPT ![type] = ArtifactAfterBatch(@, m, due, overBudget)]
          /\ gz' = [gz EXCEPT ![type] = SavedGz(@, m, TRUE)]
    /\ now' = AfterRateLimit(now, batchStartTime, Len(promises))
    /\ IF overBudget
       THEN /\ pc' = "exited"
            /\ exitCode' = 0
            /\ ended' = [ended EXCEPT ![type] = "budget"]
            /\ UNCHANGED <<i, promises, errors>>
       ELSE /\ i' = i + BATCH_SIZE
            /\ promises' = <<>>
            /\ pc' = IF i' < Len(newIds) THEN "fetch" ELSE "finish"
            /\ UNCHANGED <<exitCode, ended, errors>>
    /\ UNCHANGED <<remote, run, typeIdx, exportEntries, newIds, staleCount, stats,
                   loaded, lookups, outcome, found, prev, batchStartTime, issued>>

\* variant of ReturnedCounts that counts the new ids that were stored
ReturnedCountsStoredOnly(m, ids, stale) ==
    [total |-> Len(m),
     new |-> Cardinality({j \in 1..Len(ids) : MapHas(m, ids[j])}),
     stale |-> stale]

\* the value enrichType returns
ReturnedCounts(m, ids, stale) == [total |-> Len(m), new |-> Len(ids), stale |-> stale]

\* enrichType steps 6 to 8: refresh the popularity, final save, return the counts
finish ==
    /\ pc = "finish"
    /\ LET m == UpdatePopularity(exportEntries, enrichedMap)
       IN /\ enrichedMap' = m
          /\ disk' = [disk EXCEPT ![type] = SavedFile(m)]
          /\ gz' = [gz EXCEPT ![type] = SavedGz(@, m, FALSE)]
          /\ stats' = [stats EXCEPT ![type] = ReturnedCounts(m, newIds, staleCount)]
    /\ ended' = [ended EXCEPT ![type] = "final"]
    /\ pc' = "returned"
    /\ UNCHANGED <<remote, run, typeIdx, exportEntries, newIds, staleCount,
                   i, promises, completed, errors, lastCheckpoint, exitCode,
                   loaded, lookups, outcome, found, prev, clockVars>>

\* main: after enrichType('movie') comes enrichType('tv'), then the process ends
mainNext ==
    /\ pc = "returned"
    /\ IF typeIdx < Len(Types)
       THEN /\ typeIdx' = typeIdx + 1
            /\ pc' = "download"
            /\ exportEntries' = <<>>
            /\ enrichedMap' = <<>>
            /\ newIds' = <<>>
            /\ staleCount' = 0
            /\ i' = 0
            /\ completed' = 0
            /\ errors' = 0
            /\ lastCheckpoint' = 0
            /\ UNCHANGED exitCode
       ELSE /\ pc' = "exited"
            /\ exitCode' = 0
            /\ UNCHANGED <<typeIdx, exportEntries, enrichedMap, newIds, staleCount,
                           i, completed, errors, lastCheckpoint>>
    /\ UNCHANGED <<remote, disk, gz, run, promises, stats, obsVars, clockVars>>

\* a new process, invocation number n, over the artifacts on disk
startProcess(n) ==
    /\ pc = "exited"
    /\ run' = n
    /\ prev' = [lookups |-> lookups, outcome |-> outcome, ended |-> ended,
                found |-> found, disk |-> disk]
    /\ pc' = "download"
    /\ typeIdx' = 1
    /\ exportEntries' = <<>>
    /\ enrichedMap' = <<>>
    /\ newIds' = <<>>
    /\ staleCount' = 0
    /\ i' = 0
    /\ promises' = <<>>
    /\ completed' = 0
    /\ errors' = 0
    /\ lastCheckpoint' = 0
    /\ stats' = [t \in TypeSet |-> NoStats]
    /\ exitCode' = ABSENT
    /\ loaded' = NoLoaded
    /\ lookups' = NoLookups
    /\ outcome' = NoOutcome
    /\ ended' = NotEnded
    /\ found' = NoNewIds
    /\ now' = 0
    /\ batchStartTime' = 0
    /\ issued' = <<>>
    /\ UNCHANGED <<remote, disk, gz>>

\* the workflow is triggered again, up to MaxRuns invocations
restart == run < MaxRuns /\ startProcess(run + 1)

\* a lookup in flight settles with a response of the detail API, for the
\* requested item or, when misdirected, for another one
settleFrom(misdirected) ==
    \E j \in 1..BATCH_SIZE, id \in Ids :
      \E response \in IF misdirected THEN MisdirectedResponses(id) ELSE Responses(id) :
        /\ j <= Len(promises)
        /\ pc = "await"
        /\ Batch(newIds, i)[j] = id
        /\ settle(j, response)

Next ==
    \/ downloadExport
    \/ reconcile
    \/ startBatch
    \/ settleFrom(FALSE)
    \/ \E overBudget \in BOOLEAN : batchDone(overBudget)
    \/ finish
    \/ mainNext
    \/ restart

\* the detail API answers every lookup with the item that was requested
Spec == Init /\ [][Next]_vars

\* one invocation of the process, against a detail API that may also answer
\* a lookup with another item
NextAnyId ==
    \/ downloadExport
    \/ reconcile
    \/ startBatch
    \/ settleFrom(FALSE)
    \/ settleFrom(TRUE)
    \/ \E overBudget \in BOOLEAN : batchDone(overBudget)
    \/ finish
    \/ mainNext

SpecAnyId == Init /\ [][NextAnyId]_vars

\* both reconciliations over a store and an export with entries: the movie
\* one over at most one export id and one stored id, the series one over
\* every export and store of the bounds
InitOnce ==
    InitWith({HttpError} \cup {Served(l) : l \in PlainLines({2})}, InitFiles({1}),
             RemoteChoices(Ids), InitFiles(Ids))

NextOnce ==
    \/ downloadExport
    \/ reconcile
    \/ startBatch
    \/ settleFrom(FALSE)
    \/ \E overBudget \in BOOLEAN : batchDone(overBudget)
    \/ finish
    \/ mainNext

\* one invocation of the process, movie then series
SpecOnce == InitOnce /\ [][NextOnce]_vars

\* a lookup in flight settles with the details of the requested item
settleFound ==
    \E j \in 1..BATCH_SIZE, id \in Ids :
      \E response \in {r \in Responses(id) : fetchTmdb(r) # <<"throw">> /\ fetchTmdb(r)[2] # <<>>} :
        /\ j <= Len(promises)
        /\ pc = "await"
        /\ Batch(newIds, i)[j] = id
        /\ settle(j, response)

\* the workflow is triggered again, any number of times; the invocation
\* number stops counting at MaxRuns
retrigger == startProcess(IF run < MaxRuns THEN run + 1 ELSE run)

\* every id of the bounds is new to the movie run, two ids to the series
\* run, or the stores hold records the exports do not list
InitRerun ==
    InitWith({AllOf(Ids)}, {NoFile}, {AllOf({1, 2})}, InitFiles({MaxId}))

NextRerun ==
    \/ downloadExport
    \/ reconcile
    \/ startBatch
    \/ settleFound
    \/ \E overBudget \in BOOLEAN : batchDone(overBudget)
    \/ finish
    \/ mainNext
    \/ retrigger

\* the process re-run again and again over the same exports, with detail
\* lookups that succeed: the workflow is triggered again whenever the process
\* has exited, and the process, which can always take a step or be triggered
\* again, keeps taking steps
SpecRerun ==
    InitRerun /\ [][NextRerun]_vars /\ WF_vars(retrigger) /\ []<><<NextRerun>>_vars

\* a tick of the clock goes by while a lookup of the batch is in flight
tick ==
    /\ pc = "await"
    /\ \E j \in 1..Len(promises) : promises[j].state = "pending"
    /\ now - batchStartTime < MaxLatency
    /\ now' = now + 1
    /\ UNCHANGED <<remote, disk, gz, run, procVars, obsVars, batchStartTime, issued>>

\* every id of the bounds is new to the movie run, two ids to the series run
InitClock == InitWith({AllOf(Ids)}, {NoFile}, {AllOf({1, 2})}, {NoFile})

NextClock ==
    \/ downloadExport
    \/ reconcile
    \/ startBatch
    \/ settleFrom(FALSE)
    \/ tick
    \/ \E overBudget \in BOOLEAN : batchDone(overBudget)
    \/ finish
    \/ mainNext

\* one invocation of the process with lookups that take from no time to
\* MaxLatency ticks
SpecClock == InitClock /\ [][NextClock]_vars

\* ------------------------------------------------------------ observers
SeqSet(s) == {s[j] : j \in 1..Len(s)}

FileIds(file) == IF file.exists THEN {file.entries[j].i : j \in 1..Len(file.entries)} ELSE {}

\* the ids of the export a run of the type works with
ExportOf(t) == IF remote[t].status = 200 THEN ExportIds(ParseLines(t, remote[t].lines)) ELSE {}

\* the ids whose lookup settled without a record in this run
Failed(t) == {id \in Ids : outcome[t][id] \in {"err", "nf"}}

Succeeded(t) == {id \in Ids : outcome[t][id] = "ok"}

TypeIndex(t) == CHOOSE k \in 1..Len(Types) : Types[k] = t

\* this run's enrichType of t is past its steps 2 to 4
Reconciled(t) ==
    \/ TypeIndex(t) < typeIdx
    \/ type = t /\ pc \in {"fetch", "await", "finish", "returned"}
    \/ type = t /\ pc = "exited" /\ ended[t] # "fatal"

\* ------------------------------------------------------------------ claims

\* C1 as stated: after a reconciliation that reaches its final save, the ids
\* of the store are exactly the ids of the export, whatever the lookups did.
C1_StoreEqualsExport ==
    \A t \in TypeSet : ended[t] = "final" => FileIds(disk[t]) = ExportOf(t)

\* C1 amended: after a reconciliation that reaches its final save, the ids of
\* the store are exactly the ids of the export except the new ids whose
\* lookup failed or was not found; the store never holds an id outside the export.
C1_StoreEqualsExportExceptFailed ==
    \A t \in TypeSet :
        ended[t] = "final" =>
            /\ FileIds(disk[t]) = ExportOf(t) \ Failed(t)
            /\ (type = t /\ pc = "returned" => MapKeys(enrichedMap) = ExportOf(t) \ Failed(t))

C1_Witness ==
    /\ ended["movie"] = "final"
    /\ Failed("movie") # {}
    /\ Succeeded("movie") # {}
    /\ MapKeys(loaded["movie"]) \cap ExportOf("movie") # {}

\* the ids the previous run's fetcher processed before it ended
PrevProcessed(t) == {id \in Ids : prev.outcome[t][id] # "none"}

PrevFailed(t) == {id \in Ids : prev.outcome[t][id] \in {"err", "nf"}}

\* C2 as stated: after a run that the time-budget exit stopped, the next run
\* looks up only ids the stopped run had not processed, whatever the outcome
\* of the processed lookups was.
C2_OnlyUnprocessedLookedUp ==
    \A t \in TypeSet :
        prev.ended[t] = "budget" =>
            \A id \in Ids : lookups[t][id] > 0 =>
                id \in SeqSet(prev.found[t]) \ PrevProcessed(t)

\* C2 amended: after a run that the time-budget exit stopped after k of its n
\* new ids, the new ids of the next run against the same export are the n-k
\* unprocessed ids together with the processed ids whose lookup failed or was
\* not found; no processed id whose lookup succeeded is looked up again.
C2_ResumeSkipsStored ==
    \A t \in TypeSet :
        prev.ended[t] = "budget" =>
            /\ \A id \in Ids : lookups[t][id] > 0 =>
                  /\ id \in SeqSet(prev.found[t])
                  /\ prev.outcome[t][id] # "ok"
                  /\ id \in SeqSet(found[t])
            /\ Reconciled(t) =>
                  SeqSet(found[t]) =
                      (SeqSet(prev.found[t]) \ PrevProcessed(t)) \cup PrevFailed(t)

C2_Witness ==
    /\ run = 2
    /\ prev.ended["movie"] = "budget"
    /\ \E id \in Ids : prev.outcome["movie"][id] = "ok"
    /\ \E id \in Ids : prev.outcome["movie"][id] = "none" /\ lookups["movie"][id] > 0
    /\ \E id \in PrevFailed("movie") : lookups["movie"][id] > 0

\* the ids of the loaded store that the export of the run does not list
StaleOf(t) == MapKeys(loaded[t]) \ ExportOf(t)

KeptOf(t) == MapKeys(loaded[t]) \cap ExportOf(t)

\* C3: every id of the loaded store that is absent from the export is absent
\* from the store from the prune step on, from every artifact the run saves
\* and from the store after the run; the stale count is the number of those
\* ids; the loaded ids that the export lists are not deleted.
C3_Eviction ==
    /\ [](\A t \in TypeSet :
            /\ type = t /\ Reconciled(t) =>
                  /\ MapKeys(enrichedMap) \cap StaleOf(t) = {}
                  /\ KeptOf(t) \subseteq MapKeys(enrichedMap)
                  /\ staleCount = Cardinality(StaleOf(t))
            /\ ended[t] \in {"final", "budget"} =>
                  /\ FileIds(disk[t]) \cap StaleOf(t) = {}
                  /\ KeptOf(t) \subseteq FileIds(disk[t])
            /\ ended[t] = "final" => stats[t].stale = Cardinality(StaleOf(t)))
    /\ [][\A t \in TypeSet :
            disk'[t] # disk[t] =>
                /\ FileIds(disk'[t]) \cap StaleOf(t)' = {}
                /\ KeptOf(t)' \subseteq FileIds(disk'[t])]_vars

C3_Witness ==
    /\ ended["movie"] = "final"
    /\ Cardinality(StaleOf("movie")) = 1
    /\ stats["movie"].stale = 1
    /\ KeptOf("movie") # {}
    /\ Succeeded("movie") # {}

\* the popularity the export of the run lists for an id, as parsed
ExportPopularityOf(t, id) ==
    LET entries == ParseLines(t, remote[t].lines)
    IN entries[CHOOSE j \in 1..Len(entries) : entries[j].id = id].popularity

\* every record of the entries whose id the export lists has the export's
\* popularity rounded to 2 decimals
FreshEntries(t, entries) ==
    \A j \in 1..Len(entries) :
        entries[j].i \in ExportOf(t) =>
            entries[j].p = Round2(ExportPopularityOf(t, entries[j].i))

\* C4 as stated: after a run, whether it ended with the final save or with
\* the time-budget exit, every stored record whose id the export lists has
\* the export's popularity rounded to 2 decimals.
C4_FreshAfterAnyRun ==
    \A t \in TypeSet :
        ended[t] \in {"final", "budget"} => FreshEntries(t, disk[t].entries)

\* C4 amended: after a run that reaches its final save, every stored record
\* whose id the export lists has the export's popularity rounded to 2
\* decimals, for the records that existed before the run and for the records
\* a detail fetch of the run created.
C4_FreshAfterFinalSave ==
    \A t \in TypeSet :
        ended[t] = "final" =>
            /\ FreshEntries(t, disk[t].entries)
            /\ type = t /\ pc = "returned" => FreshEntries(t, MapValues(enrichedMap))

C4_Witness ==
    /\ ended["movie"] = "final"
    /\ \E id \in KeptOf("movie") :
          MapGet(loaded["movie"], id).p # Round2(ExportPopularityOf("movie", id))
    /\ \E id \in Succeeded("movie") :
          \E pop \in DetailPops : Round2(pop) # Round2(ExportPopularityOf("movie", id))

\* the titles and years of the entries, by id
TitlesAndYears(entries) ==
    {<<entries[j].i, entries[j].t, entries[j].y>> : j \in 1..Len(entries)}

NoLookupIssued(t) == \A id \in Ids : lookups[t][id] = 0

\* what C5 concludes for one run of a type that reached its final save
UnchangedByRun(t) ==
    /\ NoLookupIssued(t)
    /\ stats[t].new = 0
    /\ stats[t].stale = 0
    /\ FileIds(disk[t]) = MapKeys(loaded[t])
    /\ TitlesAndYears(disk[t].entries) = TitlesAndYears(MapValues(loaded[t]))

\* C5 as stated: when the persisted store holds a record for every id of the
\* export, a reconciliation issues no lookup, returns new count 0 and stale
\* count 0 and leaves ids, titles and years unchanged.
C5_IdempotentWhenCovering ==
    \A t \in TypeSet :
        ended[t] = "final" /\ ExportOf(t) \subseteq MapKeys(loaded[t]) => UnchangedByRun(t)

\* C5 amended: when the persisted store holds a record for exactly the ids of
\* the export, a reconciliation issues no lookup, returns new count 0 and
\* stale count 0 and leaves ids, titles and years unchanged; a second such
\* run after a first one that reached its final save leaves the persisted
\* entries identical.
C5_IdempotentWhenEqual ==
    \A t \in TypeSet :
        ended[t] = "final" /\ ExportOf(t) = MapKeys(loaded[t]) =>
            /\ UnchangedByRun(t)
            /\ prev.ended[t] = "final" => disk[t].entries = prev.disk[t].entries

C5_Witness ==
    /\ run = 2
    /\ prev.ended["movie"] = "final"
    /\ prev.found["movie"] = <<>>
    /\ ended["movie"] = "final"
    /\ ExportOf("movie") = MapKeys(loaded["movie"])
    /\ Cardinality(ExportOf("movie")) = MaxId

\* a Map as the mapping it represents
Mapping(m) == [key \in MapKeys(m) |-> MapGet(m, key)]

\* the process has just saved enrichedMap to the artifact of its type
JustSaved ==
    \/ pc = "returned"
    \/ pc = "exited" /\ ended[type] = "budget"
    \/ pc \in {"fetch", "await", "finish"} /\ completed > 0 /\ lastCheckpoint = completed

CurrentBatch == IF pc = "await" THEN SeqSet(Batch(newIds, i)) ELSE {}

\* the ids of the batches that have fully resolved and been stored
StoredBatches(t) == {id \in Ids : outcome[t][id] # "none"} \ CurrentBatch

\* C7: the time-budget exit saves a checkpoint and ends the process with
\* status 0; the primary artifact then holds exactly the in-memory store,
\* with every result of the resolved batches; the store changes only once
\* every lookup of a batch has settled, so it never holds part of a batch.
C7_GracefulExit ==
    /\ [](\A t \in TypeSet :
            ended[t] = "budget" =>
                /\ pc = "exited" /\ exitCode = 0 /\ type = t
                /\ disk[t] = SavedFile(enrichedMap)
                /\ Mapping(loadEnrichedData(disk[t])) = Mapping(enrichedMap)
                /\ \A j \in 1..Len(promises) : promises[j].state = "settled"
                /\ completed = i + Len(promises)
                /\ Succeeded(t) \subseteq MapKeys(enrichedMap)
                /\ Failed(t) \cap MapKeys(enrichedMap) = {})
    /\ [](pc = "await" =>
            /\ MapKeys(enrichedMap) \cap CurrentBatch = {}
            /\ Succeeded(type) \ CurrentBatch \subseteq MapKeys(enrichedMap))
    /\ [][pc = "await" /\ enrichedMap' # enrichedMap =>
            \A j \in 1..Len(promises) : promises[j].state = "settled"]_vars
    /\ [][exitCode = ABSENT /\ ended'[type] = "budget" =>
            /\ pc = "await" /\ pc' = "exited" /\ exitCode' = 0
            /\ disk'[type] = SavedFile(enrichedMap')]_vars

C7_Witness ==
    /\ ended["movie"] = "budget"
    /\ exitCode = 0
    /\ completed < Len(newIds)
    /\ Succeeded("movie") # {}
    /\ Failed("movie") # {}

\* C8: a lookup that fails or is not found aborts neither its batch nor the
\* run: the successful lookups of the same and of the other batches are
\* stored, every new id is still looked up before the final save, and exit
\* status 1 comes from a failed export download only.
C8_FailureIsolation ==
    /\ \A t \in TypeSet :
          /\ type = t /\ Reconciled(t) =>
                Succeeded(t) \ CurrentBatch \subseteq MapKeys(enrichedMap)
          /\ type = t /\ pc = "finish" =>
                \A id \in SeqSet(newIds) : outcome[t][id] # "none"
          /\ ended[t] = "final" =>
                /\ \A id \in SeqSet(found[t]) : outcome[t][id] # "none"
                /\ Succeeded(t) \subseteq FileIds(disk[t])
          /\ Failed(t) # {} => ended[t] # "fatal"
    /\ exitCode = 1 => remote[type].status # 200 /\ NoLookupIssued(type)
    /\ pc = "exited" /\ exitCode = 0 =>
          ended[type] = "budget" \/ \A t \in TypeSet : ended[t] = "final"

C8_Witness ==
    /\ pc = "exited"
    /\ exitCode = 0
    /\ ended["movie"] = "final"
    /\ Len(found["movie"]) = MaxId
    /\ outcome["movie"][found["movie"][1]] = "err"
    /\ outcome["movie"][found["movie"][2]] = "ok"
    /\ outcome["movie"][found["movie"][MaxId]] = "ok"
    /\ {found["movie"][2], found["movie"][MaxId]} \subseteq FileIds(disk["movie"])

\* C9: within a run every new id is looked up once and no more; an id whose
\* lookup failed or was not found is in no artifact the run saves; and the
\* next run finds it among its new ids and looks it up again.
C9_RetryNextRun ==
    /\ [](\A t \in TypeSet :
            /\ \A id \in Ids : lookups[t][id] <= 1
            /\ \A id \in Ids : lookups[t][id] = 1 => id \in SeqSet(found[t])
            /\ ended[t] = "final" => \A id \in SeqSet(found[t]) : lookups[t][id] = 1
            /\ ended[t] \in {"final", "budget"} => Failed(t) \cap FileIds(disk[t]) = {}
            /\ Reconciled(t) /\ prev.ended[t] \in {"final", "budget"} =>
                  PrevFailed(t) \cap ExportOf(t) \subseteq SeqSet(found[t]))
    /\ [][\A t \in TypeSet :
            disk'[t] # disk[t] => Failed(t)' \cap FileIds(disk'[t]) = {}]_vars

C9_Witness ==
    /\ run = 2
    /\ ended["movie"] = "final"
    /\ \E id \in PrevFailed("movie") :
          /\ lookups["movie"][id] = 1
          /\ outcome["movie"][id] = "ok"
          /\ id \in FileIds(disk["movie"])
    /\ \E id \in Ids : prev.outcome["movie"][id] = "ok" /\ lookups["movie"][id] = 0

\* every successful detail response of the run so far carried the requested id
NoMisdirected(t) == \A id \in Ids : outcome[t][id] # "okOther"

\* C10: the stale ids are deleted before the first lookup of the run is
\* issued, and the store and every artifact the run saves (checkpoint,
\* time-budget checkpoint, final save) hold only ids of the run's export,
\* as long as every successful detail response carried the requested id.
C10_StoreWithinExport ==
    /\ [](\A t \in TypeSet :
            /\ type = t /\ Reconciled(t) /\ NoLookupIssued(t) =>
                  MapKeys(enrichedMap) \subseteq ExportOf(t)
            /\ \E id \in Ids : lookups[t][id] > 0 => Reconciled(t)
            /\ type = t /\ Reconciled(t) /\ NoMisdirected(t) =>
                  MapKeys(enrichedMap) \subseteq ExportOf(t)
            /\ ended[t] \in {"final", "budget"} /\ NoMisdirected(t) =>
                  FileIds(disk[t]) \subseteq ExportOf(t))
    /\ [][\A t \in TypeSet :
            disk'[t] # disk[t] /\ NoMisdirected(t)' =>
                FileIds(disk'[t]) \subseteq ExportOf(t)]_vars

C10_Witness ==
    /\ ended["movie"] = "final"
    /\ StaleOf("movie") # {}
    /\ NoMisdirected("movie")
    /\ Succeeded("movie") # {}
    /\ lastCheckpoint > 0

\* this run's enrichType of t is past its step 1
Downloaded(t) == TypeIndex(t) < typeIdx \/ (type = t /\ pc # "download")

\* C11: when the export download of a type answers with a non-success
\* status, the run of that type loads nothing, looks up nothing and saves
\* nothing, no step of the invocation writes an artifact of the type and the
\* process exits with status 1; an export that was downloaded never ends the
\* run this way, whatever malformed, blank or adult lines it holds.
C11_DownloadFailureFatal ==
    /\ [](\A t \in TypeSet :
            /\ remote[t].status # 200 /\ Downloaded(t) => ended[t] = "fatal"
            /\ ended[t] = "fatal" =>
                  /\ remote[t].status # 200
                  /\ type = t /\ pc = "exited" /\ exitCode = 1
                  /\ loaded[t] = <<>> /\ found[t] = <<>> /\ enrichedMap = <<>>
                  /\ NoLookupIssued(t)
                  /\ disk[t] = prev.disk[t]
            /\ remote[t].status = 200 => ended[t] # "fatal")
    /\ [](exitCode = 1 => ended[type] = "fatal")
    /\ [][\A t \in TypeSet :
            remote[t].status # 200 => disk'[t] = disk[t] /\ gz'[t] = gz[t]]_vars

C11_Witness ==
    /\ ended["tv"] = "fatal"
    /\ exitCode = 1
    /\ ended["movie"] = "final"
    /\ disk["movie"] # prev.disk["movie"]
    /\ disk["tv"].exists
    /\ Len(disk["tv"].entries) = MaxId

\* the fetcher of the running type has made a checkpoint save at its last
\* batch boundary
JustCheckpointed ==
    pc \in {"fetch", "await", "finish"} /\ completed > 0 /\ lastCheckpoint = completed

\* C12: only the final save of a type writes its compressed copy, which
\* then holds the entries of the primary artifact; a checkpoint save and the
\* save of the time-budget exit overwrite the primary artifact with the
\* store and leave the compressed copy as it was.
C12_GzOnlyOnFinalSave ==
    /\ [](\A t \in TypeSet :
            /\ ended[t] = "final" => gz[t].exists /\ gz[t] = disk[t]
            /\ ended[t] = "budget" => disk[t] = SavedFile(enrichedMap))
    /\ [](JustCheckpointed => disk[type] = SavedFile(enrichedMap))
    /\ [][\A t \in TypeSet :
            gz'[t] # gz[t] =>
                /\ type = t /\ pc = "finish" /\ pc' = "returned"
                /\ gz'[t] = SavedFile(enrichedMap')
                /\ disk'[t] = SavedFile(enrichedMap')]_vars
    /\ [][pc = "await" /\ pc' # "await" =>
            /\ gz' = gz
            /\ lastCheckpoint' = completed' \/ pc' = "exited" =>
                  disk'[type] = SavedFile(enrichedMap')]_vars

C12_Witness ==
    /\ type = "tv"
    /\ pc = "returned"
    /\ lastCheckpoint > 0
    /\ prev.disk["tv"].exists
    /\ gz["tv"] # prev.disk["tv"]
    /\ disk["tv"] # prev.disk["tv"]
    /\ ended["movie"] = "final"

\* the batch start after the k-th one of the run came this many ticks later
Spacing(k) == issued[k + 1].at - issued[k].at

\* the lookups issued by the batch starts a to b of the run
RECURSIVE IssuedBetween(_, _)
IssuedBetween(a, b) == IF a > b THEN 0 ELSE issued[a].n + IssuedBetween(a + 1, b)

\* C13: two consecutive batch starts are at least (lookups of the first) /
\* REQUESTS_PER_SECOND seconds apart, whether the lookups took less or more
\* than that, and so is the end of a loop iteration from its batch start;
\* hence the lookups issued from one batch start up to another, the latter's
\* excluded, are at most REQUESTS_PER_SECOND per second of the time between
\* them, and the latter's included at most one batch more.
C13_RateLimit ==
    /\ [](\A k \in 1..Len(issued) - 1 : Spacing(k) >= MinTime(issued[k].n))
    /\ [](issued # <<>> /\ pc # "await" =>
            now - issued[Len(issued)].at >= MinTime(issued[Len(issued)].n))
    /\ [](\A a, b \in 1..Len(issued) :
            a < b =>
              /\ IssuedBetween(a, b - 1) * TicksPerSecond
                    <= REQUESTS_PER_SECOND * (issued[b].at - issued[a].at)
              /\ IssuedBetween(a, b) * TicksPerSecond
                    <= REQUESTS_PER_SECOND * (issued[b].at - issued[a].at)
                         + BATCH_SIZE * TicksPerSecond)
    /\ [][pc = "await" /\ pc' # "await" =>
            /\ now' >= now
            /\ now' - batchStartTime >= MinTime(Len(promises))]_vars

\* lookups that took longer than the minimum, then lookups that took less
C13_Witness ==
    /\ Len(issued) >= 3
    /\ Spacing(1) > MinTime(issued[1].n)
    /\ Spacing(2) = MinTime(issued[2].n)
    /\ pc = "await"
    /\ \A j \in 1..Len(promises) : promises[j].state = "settled"
    /\ now - batchStartTime < MinTime(Len(promises))

\* the ids whose lookup threw in this run, and those answered not-found
Thrown(t) == {id \in Ids : outcome[t][id] = "err"}

NotFound(t) == {id \in Ids : outcome[t][id] = "nf"}

\* the new ids of the running type that have no record in the store
Unstored == SeqSet(newIds) \ MapKeys(enrichedMap)

IssuedIds(t) == {id \in Ids : lookups[t][id] > 0}

InFlight(t) == {id \in IssuedIds(t) : outcome[t][id] = "none"}

\* the ids at the positions a to b of the new ids
Slice(a, b) == SeqSet(SubSeq(newIds, a, b))

\* the size of the batch that starts at position from
BatchLen(from) ==
    IF Len(newIds) - from < BATCH_SIZE THEN Len(newIds) - from ELSE BATCH_SIZE

\* C16: the new ids are looked up in consecutive batches of at most
\* BATCH_SIZE in their order; a batch is issued only when no lookup is in
\* flight, so the lookups in flight never exceed the batch size; no id is
\* looked up twice and, once the loop is over, every new id has been looked
\* up, settled as success, error or not-found.
C16_BatchSequencing ==
    /\ [](/\ Len(promises) <= BATCH_SIZE
          /\ Cardinality(InFlight(type)) <= BATCH_SIZE
          /\ \A id \in Ids : lookups[type][id] <= 1
          /\ pc = "await" =>
                /\ Len(promises) = BatchLen(i)
                /\ IssuedIds(type) = Slice(1, i + BatchLen(i))
                /\ InFlight(type) \subseteq Slice(i + 1, i + BatchLen(i))
          /\ pc = "fetch" => IssuedIds(type) = Slice(1, i) /\ InFlight(type) = {}
          /\ pc \in {"finish", "returned"} =>
                IssuedIds(type) = SeqSet(newIds) /\ InFlight(type) = {})
    /\ [][lookups' # lookups =>
            /\ InFlight(type) = {}
            /\ IssuedIds(type)' \ IssuedIds(type) = Slice(i + 1, i + BatchLen(i))
            /\ lookups'[type][newIds[i + 1]] = 1]_vars
    /\ [][i' > i => i' = i + BATCH_SIZE /\ InFlight(type) = {}]_vars

C16_Witness ==
    /\ type = "tv"
    /\ pc = "await"
    /\ i = BATCH_SIZE
    /\ Len(newIds) > BATCH_SIZE
    /\ outcome["tv"][newIds[1]] = "err"
    /\ outcome["tv"][newIds[2]] = "nf"
    /\ InFlight("tv") = {newIds[BATCH_SIZE + 1]}

\* C17: the series reconciliation starts once the movie reconciliation has
\* returned from its final save, and until then no step downloads the
\* series export, loads or writes a series artifact or issues a series
\* lookup; lookups are in flight for the running type only; when the movie
\* reconciliation ends the process, by the time-budget exit or by a failed
\* download, the series artifacts are as the invocation found them.
C17_TypesInSequence ==
    /\ [](/\ type = "tv" => ended["movie"] = "final"
          /\ ended["movie"] # "final" =>
                /\ ~Downloaded("tv") /\ ended["tv"] = "no"
                /\ loaded["tv"] = <<>> /\ found["tv"] = <<>>
                /\ NoLookupIssued("tv")
                /\ disk["tv"] = prev.disk["tv"]
          /\ InFlight("movie") = {} \/ InFlight("tv") = {}
          /\ \A t \in TypeSet : InFlight(t) # {} => type = t /\ pc = "await"
          /\ ended["movie"] \in {"budget", "fatal"} =>
                /\ pc = "exited" /\ type = "movie"
                /\ disk["tv"] = prev.disk["tv"])
    /\ [][ended["movie"] # "final" =>
            disk'["tv"] = disk["tv"] /\ gz'["tv"] = gz["tv"]]_vars
    /\ [][\A t \in TypeSet :
            disk'[t] # disk[t] \/ gz'[t] # gz[t] \/ lookups'[t] # lookups[t] =>
                type = t /\ type' = t]_vars

C17_Witness ==
    /\ type = "tv"
    /\ pc = "await"
    /\ InFlight("tv") # {}
    /\ IssuedIds("movie") # {}
    /\ disk["movie"] # prev.disk["movie"]
    /\ disk["tv"] = prev.disk["tv"]

\* the first batch of the new ids this run's enrichType of t found
FirstBatch(t) == SeqSet(Batch(found[t], 0))

\* C18: the time-budget exit is taken at the end of a loop iteration, with
\* every lookup of the batch settled and the store, results included,
\* saved; so a run that found new ids and ended has the records of its first
\* batch in the artifact; and, over an unchanged export with lookups that
\* succeed, re-running the process leads to a run in which both types find
\* no new id and reach their final save, however many runs exit on the time
\* budget.
C18_ProgressAcrossRuns ==
    /\ [](\A t \in TypeSet :
            ended[t] \in {"budget", "final"} =>
                /\ FirstBatch(t) \subseteq Succeeded(t)
                /\ Succeeded(t) \subseteq FileIds(disk[t]))
    /\ [][ended'[type] = "budget" /\ ended[type] # "budget" =>
            /\ pc = "await"
            /\ \A j \in 1..Len(promises) : promises[j].state = "settled"
            /\ disk'[type] = SavedFile(AddResults(promises, enrichedMap))]_vars
    /\ <>(\A t \in TypeSet : ended[t] = "final" /\ found[t] = <<>>)

C18_Witness ==
    /\ \A t \in TypeSet : ended[t] = "final" /\ found[t] = <<>>
    /\ prev.ended["movie"] = "final"
    /\ prev.ended["tv"] = "budget"
    /\ prev.found["tv"] # <<>>
    /\ run = MaxRuns
    /\ FileIds(disk["movie"]) = Ids

\* C19: a reconciliation that reaches its final save returns as new count
\* the number of export ids the loaded store lacked, whether or not their
\* lookup gave a record, as stale count the number of loaded ids it deleted,
\* and as total the number of saved entries, which is the size of the loaded
\* store minus the stale count plus the new count minus the number of new
\* ids whose lookup failed or was not found.
C19_ReturnedCounts ==
    \A t \in TypeSet :
        ended[t] = "final" =>
            /\ stats[t].new = Cardinality(ExportOf(t) \ MapKeys(loaded[t]))
            /\ stats[t].new = Len(found[t])
            /\ stats[t].stale = Cardinality(StaleOf(t))
            /\ stats[t].stale = Cardinality(MapKeys(loaded[t]) \ FileIds(disk[t]))
            /\ stats[t].total = Len(disk[t].entries)
            /\ stats[t].total = disk[t].count
            /\ stats[t].total = Len(loaded[t]) - stats[t].stale + stats[t].new
                                    - Cardinality(Failed(t))

C19_Witness ==
    /\ ended["tv"] = "final"
    /\ stats["tv"].stale = 1
    /\ stats["tv"].new = 2
    /\ Cardinality(Failed("tv")) = 1
    /\ stats["tv"].total = 1
    /\ ended["movie"] = "final"
    /\ stats["movie"].new = 1
    /\ stats["movie"].total = 0

====
